---- MODULE Spec2Model ----
(***************************************************************************)
(* Model of app.py of the Transition Extraction App: the paragraph         *)
(* segmenter extract_articles, the splitter split_paragraph_on_transition  *)
(* and the aggregation passes that build the few-shot examples and the     *)
(* frequency tables.                                                       *)
(*                                                                         *)
(* A Python str is the sequence of its Unicode code points; indices of the *)
(* program (i, j, k, idx) are 0-based as in the source.                    *)
(***************************************************************************)
EXTENDS Integers, Sequences, FiniteSets

VARIABLES
    pc,                 \* position of the program
    paragraphs,         \* extract_articles: the stripped paragraph texts
    articles,           \* list of (narrative_text, transitions)
    i, j, k,            \* extract_articles: cursors
    text,               \* extract_articles: text = paragraphs[i]
    narrative_parts,    \* extract_articles: narrative paragraphs of the block
    narrative_text,     \* extract_articles: joined narrative of the block
    transitions,        \* extract_articles: transitions of the block
    fewshot_examples,   \* list of {paragraph_a, transition, paragraph_b}
    transition_counts,  \* dict: transition -> occurrences
    example_counts,     \* dict: transition -> accepted examples
    all_transitions,    \* list of every transition occurrence
    ai, ti,             \* position of the two nested for loops
    unique_transitions, \* sorted(set(all_transitions))
    duplicate_transitions, \* counts > 1
    fewshot_rejected,   \* counts > 3
    narrative, transition, \* arguments of split_paragraph_on_transition
    result              \* its return value (before, after)

vars == <<pc, paragraphs, articles, i, j, k, text, narrative_parts,
          narrative_text, transitions, fewshot_examples, transition_counts,
          example_counts, all_transitions, ai, ti, unique_transitions,
          duplicate_transitions, fewshot_rejected, narrative, transition,
          result>>

segVars == <<paragraphs, i, j, k, text, narrative_parts, narrative_text,
             transitions>>
aggVars == <<fewshot_examples, transition_counts, example_counts,
             all_transitions, ai, ti, unique_transitions,
             duplicate_transitions, fewshot_rejected>>
splitVars == <<narrative, transition, result>>

(***************************************************************************)
(* Bounds of the model.                                                    *)
(***************************************************************************)
MaxParas == 5       \* paragraphs of a document
MaxArticles == 2    \* articles handed to the aggregation passes
MaxTrans == 2       \* transitions of one article
MaxLen == 4         \* characters of a narrative given to the splitter
MaxTransLen == 2    \* characters of a transition given to the splitter

(***************************************************************************)
(* Strings.                                                                *)
(***************************************************************************)
\* The code points str.strip() removes and \s matches in a str pattern
\* (str.isspace): TAB LF VT FF CR, FS GS RS US, SPACE, NEL, NBSP, OGHAM SPACE
\* MARK, EN QUAD..HAIR SPACE, LINE and PARAGRAPH SEPARATOR, NARROW NBSP,
\* MEDIUM MATHEMATICAL SPACE, IDEOGRAPHIC SPACE.
Whitespace ==
    (9..13) \cup (28..31) \cup {32, 133, 160, 5760} \cup (8192..8202)
        \cup {8232, 8233, 8239, 8287, 12288}

\* The code point of the digit zero of every Unicode decimal-digit script
\* (category Nd), ASCII first; the mathematical digits are five runs.
DigitZeros ==
    {48, 1632, 1776, 1984, 2406, 2534, 2662, 2790, 2918, 3046, 3174, 3302,
     3430, 3558, 3664, 3792, 3872, 4160, 4240, 6112, 6160, 6470, 6608, 6784,
     6800, 6992, 7088, 7232, 7248, 42528, 43216, 43264, 43472, 43504, 43600,
     44016, 65296, 66720, 68912, 69734, 69872, 69942, 70096, 70384, 70736,
     70864, 71248, 71360, 71472, 71904, 72016, 72784, 73040, 73120, 92768,
     92864, 93008, 120782, 120792, 120802, 120812, 120822, 123200, 123632,
     125264, 130032}

\* The code points \d matches in a str pattern (no re.ASCII).
Digits == UNION {z..(z + 9) : z \in DigitZeros}

\* Python's None; no str is equal to it (no code point is negative).
None == <<-1>>

\* s[lo:hi] for 0 <= lo, hi <= len(s).
Slice(s, lo, hi) ==
    IF hi <= lo THEN <<>> ELSE SubSeq(s, lo + 1, hi)

\* The first index >= pos (0-based) whose character is not in set, or len(s).
RECURSIVE SkipWhile(_, _, _)
SkipWhile(s, pos, set) ==
    IF pos < Len(s) /\ s[pos + 1] \in set
    THEN SkipWhile(s, pos + 1, set)
    ELSE pos

\* The last index < pos whose character is not in set, plus one; or 0.
RECURSIVE SkipBack(_, _, _)
SkipBack(s, pos, set) ==
    IF pos > 0 /\ s[pos] \in set
    THEN SkipBack(s, pos - 1, set)
    ELSE pos

\* str.strip(): s without its leading and trailing whitespace.
Strip(s) ==
    LET lo == SkipWhile(s, 0, Whitespace)
        hi == SkipBack(s, Len(s), Whitespace)
    IN  Slice(s, lo, hi)

\* str.startswith(prefix).
StartsWith(s, prefix) ==
    /\ Len(prefix) <= Len(s)
    /\ SubSeq(s, 1, Len(prefix)) = prefix

\* sub occurs in s at 0-based index at.
OccursAt(s, sub, at) ==
    /\ at >= 0
    /\ at + Len(sub) <= Len(s)
    /\ Slice(s, at, at + Len(sub)) = sub

\* str.find(sub) searching from index from: lowest index of an occurrence, or -1.
RECURSIVE FindFrom(_, _, _)
FindFrom(s, sub, from) ==
    IF from + Len(sub) > Len(s) THEN -1
    ELSE IF OccursAt(s, sub, from) THEN from
    ELSE FindFrom(s, sub, from + 1)

\* str.rfind(sub): highest index of an occurrence, or -1.
RECURSIVE RFindFrom(_, _, _)
RFindFrom(s, sub, from) ==
    IF from < 0 THEN -1
    ELSE IF OccursAt(s, sub, from) THEN from
    ELSE RFindFrom(s, sub, from - 1)

FindLast(s, sub) == RFindFrom(s, sub, Len(s) - Len(sub))

\* str.find(sub).
Find(s, sub) == FindFrom(s, sub, 0)

\* sep.join(parts).
RECURSIVE Join(_, _)
Join(sep, parts) ==
    IF parts = <<>> THEN <<>>
    ELSE IF Len(parts) = 1 THEN parts[1]
    ELSE parts[1] \o sep \o Join(sep, Tail(parts))

\* The elements of a list.
Range(seq) == {seq[n] : n \in 1..Len(seq)}

\* dict.get(key, default).
Get(dict, key, default) ==
    IF key \in DOMAIN dict THEN dict[key] ELSE default

\* dict[key] = value.
Put(dict, key, value) ==
    [x \in DOMAIN dict \cup {key} |-> IF x = key THEN value ELSE dict[x]]

\* The empty dict.
EmptyDict == [x \in {} |-> 0]

\* {t: c for t, c in dict.items() if c > n}.
Above(dict, n) ==
    [x \in {y \in DOMAIN dict : dict[y] > n} |-> dict[x]]

(***************************************************************************)
(* split_paragraph_on_transition.                                          *)
(***************************************************************************)
\* The variant that splits on the last occurrence.
split_on_last_occurrence(nar, tr) ==
    LET idx == FindLast(nar, tr)
    IN  IF idx = -1 THEN <<None, None>>
        ELSE <<Strip(Slice(nar, 0, idx)),
               Strip(Slice(nar, idx + Len(tr), Len(nar)))>>

\* The variant that returns the two halves untrimmed.
split_without_strip(nar, tr) ==
    LET idx == Find(nar, tr)
    IN  IF idx = -1 THEN <<None, None>>
        ELSE <<Slice(nar, 0, idx), Slice(nar, idx + Len(tr), Len(nar))>>

\* idx = narrative.find(transition); if idx == -1: return None, None
\* before = narrative[:idx].strip()
\* after = narrative[idx + len(transition):].strip()
split_paragraph_on_transition(nar, tr) ==
    LET idx == Find(nar, tr)
    IN  IF idx = -1 THEN <<None, None>>
        ELSE <<Strip(Slice(nar, 0, idx)),
               Strip(Slice(nar, idx + Len(tr), Len(nar)))>>

(***************************************************************************)
(* is_header and the literals of extract_articles.                         *)
(***************************************************************************)
\* "À savoir également dans votre département"
Marker ==
    <<192, 32, 115, 97, 118, 111, 105, 114, 32, 233, 103, 97, 108, 101,
      109, 101, 110, 116, 32, 100, 97, 110, 115, 32, 118, 111, 116, 114,
      101, 32, 100, 233, 112, 97, 114, 116, 101, 109, 101, 110, 116>>

\* "Transitions"
TransitionsPrefix ==
    <<84, 114, 97, 110, 115, 105, 116, 105, 111, 110, 115>>

\* re.match(r"^\s*\d+\s+du\s+\d{2}/\d{2}", text): the classes \s and \d are
\* disjoint, so each greedy run ends where the next element must begin.
is_header(s) ==
    LET p0 == SkipWhile(s, 0, Whitespace)
        p1 == SkipWhile(s, p0, Digits)
        p2 == SkipWhile(s, p1, Whitespace)
        p3 == p2 + 2
        p4 == SkipWhile(s, p3, Whitespace)
    IN  /\ p1 > p0
        /\ p2 > p1
        /\ OccursAt(s, <<100, 117>>, p2)
        /\ p4 > p3
        /\ p4 + 5 <= Len(s)
        /\ s[p4 + 1] \in Digits
        /\ s[p4 + 2] \in Digits
        /\ s[p4 + 3] = 47
        /\ s[p4 + 4] \in Digits
        /\ s[p4 + 5] \in Digits

(***************************************************************************)
(* Documents given to extract_articles: the texts of doc.paragraphs.       *)
(***************************************************************************)
\* "Transitions :" with a no-break space before the colon
LabelLine ==
    <<84, 114, 97, 110, 115, 105, 116, 105, 111, 110, 115, 160, 58>>

\* "62 du 07/05" with a no-break space after "du"
HeaderLine ==
    <<54, 50, 32, 100, 117, 160, 48, 55, 47, 48, 53>>

\* "6 du 7/05": the date fragment has one digit where the pattern wants two.
DatedLine ==
    <<54, 32, 100, 117, 32, 55, 47, 48, 53>>

\* A paragraph of a space and a no-break space, and the paragraph "a" after
\* a no-break space.
BlankLine == <<32, 160>>
ProseLine == <<160, 97>>

DocParagraphs ==
    {Marker, LabelLine, HeaderLine, DatedLine, BlankLine, ProseLine}

Documents ==
    UNION {[1..n -> DocParagraphs] : n \in 0..MaxParas}

(***************************************************************************)
(* extract_articles.                                                       *)
(***************************************************************************)
\* Values of the variables a specification does not use.
IdleSeg ==
    /\ paragraphs = <<>>
    /\ i = 0 /\ j = 0 /\ k = 0
    /\ text = <<>>
    /\ narrative_parts = <<>>
    /\ narrative_text = <<>>
    /\ transitions = <<>>

IdleAgg ==
    /\ fewshot_examples = <<>>
    /\ transition_counts = EmptyDict
    /\ example_counts = EmptyDict
    /\ all_transitions = <<>>
    /\ ai = 0 /\ ti = 0
    /\ unique_transitions = <<>>
    /\ duplicate_transitions = EmptyDict
    /\ fewshot_rejected = EmptyDict

IdleSplit ==
    /\ narrative = <<>>
    /\ transition = <<>>
    /\ result = <<>>

\* paragraphs = [p.text.strip() for p in doc.paragraphs]; articles = [];
\* i, N = 0, len(paragraphs)
Init ==
    /\ pc = "outer"
    /\ \E doc \in Documents :
          paragraphs = [n \in 1..Len(doc) |-> Strip(doc[n])]
    /\ articles = <<>>
    /\ i = 0 /\ j = 0 /\ k = 0
    /\ text = <<>>
    /\ narrative_parts = <<>>
    /\ narrative_text = <<>>
    /\ transitions = <<>>
    /\ IdleAgg
    /\ IdleSplit

N == Len(paragraphs)

\* paragraphs[idx] is defined for 0 <= idx < len(paragraphs) (the program
\* uses no negative index).
InRange(idx) == idx >= 0 /\ idx < Len(paragraphs)

Para(idx) == paragraphs[idx + 1]

\* paragraphs[idx] with idx out of range raises IndexError, which nothing catches.
RaiseIndexError ==
    /\ pc' = "IndexError"
    /\ UNCHANGED <<segVars, articles, aggVars, splitVars>>

\* j = i + 1
NarrativeStart == i + 1

\* The variant of the loop test that also stops on a header.
NarrativeStopsOnHeader(p) ==
    StartsWith(p, TransitionsPrefix) \/ is_header(p)

\* paragraphs[j].startswith("Transitions")
NarrativeStops(p) == StartsWith(p, TransitionsPrefix)

\* The variant that starts the transitions on the label paragraph.
TransitionsStartOnLabel == j

\* k = j + 1
TransitionsStart == j + 1

\* The variant that keeps a block with an empty narrative.
QualifiesOnTransitionsOnly == transitions # <<>>

\* if narrative_text and transitions
Qualifies == narrative_text # <<>> /\ transitions # <<>>

\* The variant that resumes past the stop index.
ResumePastStop == k + 1

\* i = k
ResumeIndex == k

\* while i < N: text = paragraphs[i]; if text == marker:
\*     narrative_parts = []; j = i + 1
MarkerLine ==
    /\ pc = "outer"
    /\ i < N
    /\ IF ~InRange(i) THEN RaiseIndexError
       ELSE /\ Para(i) = Marker
            /\ text' = Para(i)
            /\ narrative_parts' = <<>>
            /\ j' = NarrativeStart
            /\ pc' = "narrative"
            /\ UNCHANGED <<paragraphs, articles, i, k, narrative_text,
                           transitions, aggVars, splitVars>>

\* while i < N: text = paragraphs[i]; else: i += 1
OtherLine ==
    /\ pc = "outer"
    /\ i < N
    /\ IF ~InRange(i) THEN RaiseIndexError
       ELSE /\ Para(i) # Marker
            /\ text' = Para(i)
            /\ i' = i + 1
            /\ UNCHANGED <<pc, paragraphs, articles, j, k, narrative_parts,
                           narrative_text, transitions, aggVars, splitVars>>

\* while i < N fails: return articles
ScanEnd ==
    /\ pc = "outer"
    /\ ~(i < N)
    /\ pc' = "return"
    /\ UNCHANGED <<segVars, articles, aggVars, splitVars>>

\* while j < N and not paragraphs[j].startswith("Transitions"):
\*     if paragraphs[j]: narrative_parts.append(paragraphs[j]);  j += 1
NarrativeLine ==
    /\ pc = "narrative"
    /\ j < N
    /\ IF ~InRange(j) THEN RaiseIndexError
       ELSE /\ ~NarrativeStops(Para(j))
            /\ narrative_parts' =
                  IF Para(j) # <<>> THEN Append(narrative_parts, Para(j))
                  ELSE narrative_parts
            /\ j' = j + 1
            /\ UNCHANGED <<pc, paragraphs, articles, i, k, text,
                           narrative_text, transitions, aggVars, splitVars>>

\* The loop ends; narrative_text = " ".join(narrative_parts).strip();
\* k = j + 1; transitions = []
NarrativeEnd ==
    /\ pc = "narrative"
    /\ ~(j < N) \/ (InRange(j) /\ NarrativeStops(Para(j)))
    /\ narrative_text' = Strip(Join(<<32>>, narrative_parts))
    /\ k' = TransitionsStart
    /\ transitions' = <<>>
    /\ pc' = "transitions"
    /\ UNCHANGED <<paragraphs, articles, i, j, text, narrative_parts,
                   aggVars, splitVars>>

\* while k < N: t = paragraphs[k]; if not t: k += 1; continue
BlankTransition ==
    /\ pc = "transitions"
    /\ k < N
    /\ IF ~InRange(k) THEN RaiseIndexError
       ELSE /\ Para(k) = <<>>
            /\ k' = k + 1
            /\ UNCHANGED <<pc, paragraphs, articles, i, j, text,
                           narrative_parts, narrative_text, transitions,
                           aggVars, splitVars>>

\* while k < N: t = paragraphs[k]; transitions.append(t); k += 1
TransitionLine ==
    /\ pc = "transitions"
    /\ k < N
    /\ IF ~InRange(k) THEN RaiseIndexError
       ELSE /\ Para(k) # <<>>
            /\ ~is_header(Para(k))
            /\ transitions' = Append(transitions, Para(k))
            /\ k' = k + 1
            /\ UNCHANGED <<pc, paragraphs, articles, i, j, text,
                           narrative_parts, narrative_text, aggVars,
                           splitVars>>

\* while k < N fails, or if is_header(t): break
TransitionsEnd ==
    /\ pc = "transitions"
    /\ ~(k < N) \/ (InRange(k) /\ Para(k) # <<>> /\ is_header(Para(k)))
    /\ pc' = "block"
    /\ UNCHANGED <<segVars, articles, aggVars, splitVars>>

\* if narrative_text and transitions:
\*     articles.append((narrative_text, transitions));  i = k
EmitArticle ==
    /\ pc = "block"
    /\ Qualifies
    /\ articles' = Append(articles, <<narrative_text, transitions>>)
    /\ i' = ResumeIndex
    /\ pc' = "outer"
    /\ UNCHANGED <<paragraphs, j, k, text, narrative_parts, narrative_text,
                   transitions, aggVars, splitVars>>

\* the if fails;  i = k
DiscardBlock ==
    /\ pc = "block"
    /\ ~Qualifies
    /\ i' = ResumeIndex
    /\ pc' = "outer"
    /\ UNCHANGED <<paragraphs, articles, j, k, text, narrative_parts,
                   narrative_text, transitions, aggVars, splitVars>>

Next ==
    \/ MarkerLine
    \/ OtherLine
    \/ ScanEnd
    \/ NarrativeLine
    \/ NarrativeEnd
    \/ BlankTransition
    \/ TransitionLine
    \/ TransitionsEnd
    \/ EmitArticle
    \/ DiscardBlock

Spec == Init /\ [][Next]_vars

\* The loops are sequential code: a step that can be taken is taken.
FairSpec == Spec /\ WF_vars(Next)

(***************************************************************************)
(* Properties of extract_articles.                                         *)
(***************************************************************************)
Min(set) == CHOOSE x \in set : \A y \in set : x <= y

NonEmpty(p) == p # <<>>

\* The non-empty paragraphs at indices lo..hi (0-based, inclusive), in order.
NonEmptyParas(lo, hi) ==
    IF hi < lo THEN <<>>
    ELSE SelectSeq(SubSeq(paragraphs, lo + 1, hi + 1), NonEmpty)

\* The first index > from whose paragraph starts with "Transitions", or N.
FirstLabelAfter(from) ==
    Min({m \in (from + 1)..(N - 1) :
            StartsWith(Para(m), TransitionsPrefix)} \cup {N})

\* The first index > from whose paragraph is non-empty and a header, or N.
FirstHeaderAfter(from) ==
    Min({m \in (from + 1)..(N - 1) :
            Para(m) # <<>> /\ is_header(Para(m))} \cup {N})

\* C6: an Article is appended only at the end of a block opened by the outer
\* cursor on a marker paragraph, only when the block's narrative and its
\* transitions are both non-empty and a "Transitions" paragraph follows the
\* marker; a document without a marker yields no Article; every Article has
\* a non-empty narrative and at least one transition, each a non-empty
\* paragraph of the document.
C6_EmitOnlyQualifyingBlocks ==
    /\ [](\A n \in 1..Len(articles) :
            /\ articles[n][1] # <<>>
            /\ articles[n][2] # <<>>
            /\ \A t \in Range(articles[n][2]) :
                  t # <<>> /\ t \in Range(paragraphs))
    /\ []((\A n \in 1..N : paragraphs[n] # Marker) => articles = <<>>)
    /\ [][articles' # articles =>
            /\ pc = "block"
            /\ InRange(i) /\ Para(i) = Marker
            /\ narrative_text # <<>>
            /\ transitions # <<>>
            /\ FirstLabelAfter(i) < N
            /\ articles' = Append(articles, <<narrative_text, transitions>>)]_vars

\* An Article has been emitted and the scan has returned.
C6_Witness ==
    /\ pc = "return"
    /\ Len(articles) = 1
    /\ \E n \in 1..N : paragraphs[n] = <<>>

\* C7: when the two inner loops of a block have ended, with j the first
\* index > i starting with "Transitions" (or N) and k the first index > j
\* that is a non-empty header (or N), the narrative is the non-empty
\* paragraphs i+1..j-1 joined by single spaces and the transitions are the
\* non-empty paragraphs j+1..k-1, in order.
C7_BlockContents ==
    pc = "block" =>
        LET jj == FirstLabelAfter(i)
            kk == FirstHeaderAfter(jj)
        IN  /\ narrative_text = Join(<<32>>, NonEmptyParas(i + 1, jj - 1))
            /\ transitions = NonEmptyParas(jj + 1, kk - 1)

\* A block whose narrative holds a header-shaped paragraph and whose
\* transitions end on a header.
C7_Witness ==
    /\ pc = "block"
    /\ HeaderLine \in Range(narrative_parts)
    /\ transitions # <<>>
    /\ k < N

\* C8: the outer scan resumes exactly at the stop index k of the block, and
\* reads the paragraph there; a block is opened only by the outer cursor
\* standing on a marker, and the outer cursor on a marker always opens one;
\* a marker strictly between the cursor and the stop index is kept as
\* narrative or transition text and is jumped over by the cursor.
C8_CursorReentrancy ==
    [][/\ pc = "block" => (pc' = "outer" /\ i' = k)
       /\ (pc = "outer" /\ i < N) => text' = Para(i)
       /\ pc' = "narrative" /\ pc # "narrative" =>
             (pc = "outer" /\ Para(i) = Marker /\ i' = i)
       /\ (pc = "outer" /\ i < N /\ Para(i) = Marker) => pc' = "narrative"
       /\ pc = "block" =>
             \A m \in (i + 1)..(N - 1) :
                Para(m) = Marker =>
                   \/ m < j /\ Marker \in Range(narrative_parts) /\ i' > m
                   \/ m > j /\ m < k /\ Marker \in Range(transitions) /\ i' > m
                   \/ m > k /\ i' < m]_vars

\* The scan has resumed on the header that ended a block whose transitions
\* hold a marker line.
C8_Witness ==
    /\ pc = "outer"
    /\ text = Marker
    /\ i = k /\ i < N
    /\ is_header(Para(i))
    /\ Marker \in Range(transitions)

\* C10: every step of the outer scan strictly increases the cursor (by 1 on
\* another line, to a stop index k >= i+2 at the end of a block, which is
\* N+1 when no "Transitions" paragraph follows the marker), the inner scans
\* strictly increase j and k below N, no read is out of range, and the scan
\* returns.
C10_Terminates ==
    /\ [][/\ (pc = "outer" /\ pc' = "outer") => i' = i + 1
          /\ pc = "block" =>
                /\ i' = k
                /\ k >= i + 2
                /\ k <= N + 1
                /\ FirstLabelAfter(i) = N => k = N + 1
          /\ (pc = "narrative" /\ pc' = "narrative") => (j < N /\ j' = j + 1)
          /\ (pc = "transitions" /\ pc' = "transitions") =>
                (k < N /\ k' = k + 1)
          /\ pc' # "IndexError"]_vars
    /\ <>(pc = "return")

\* The marker was the last paragraph and the cursor is past the end.
C10_Witness ==
    /\ pc = "return"
    /\ N > 0
    /\ paragraphs[N] = Marker
    /\ i = N + 1

(***************************************************************************)
(* The aggregation passes (steps 4 of the script).                         *)
(***************************************************************************)
\* Paragraph lists a narrative is joined from ("a"; "bab"; "b", a no-break
\* space, "a" and then "b"), and transition paragraphs ("a", "b"): stripped,
\* non-empty, and no transition is a header.
NarrativeParts ==
    {<<<<97>>>>, <<<<98, 97, 98>>>>, <<<<98, 160, 97>>, <<98>>>>}

TransitionTexts == {<<97>>, <<98>>}

\* The articles extract_articles can return from such paragraphs.
ArticleValues ==
    {<<Strip(Join(<<32>>, parts)), trs>> :
        parts \in NarrativeParts,
        trs \in UNION {[1..n -> TransitionTexts] : n \in 1..MaxTrans}}

\* if not articles: st.stop()  -- the passes run on a non-empty list.
InitAgg ==
    /\ pc = "count"
    /\ articles \in UNION {[1..n -> ArticleValues] : n \in 1..MaxArticles}
    /\ fewshot_examples = <<>>
    /\ transition_counts = EmptyDict
    /\ example_counts = EmptyDict
    /\ all_transitions = <<>>
    /\ ai = 1 /\ ti = 1
    /\ unique_transitions = <<>>
    /\ duplicate_transitions = EmptyDict
    /\ fewshot_rejected = EmptyDict
    /\ IdleSeg
    /\ IdleSplit

\* The article and the transition the two nested for loops stand on.
CurNarrative == articles[ai][1]
CurTransition == articles[ai][2][ti]

\* The loops have run through every article.
LoopsDone == ai > Len(articles)

\* for narrative, transitions in articles: for t in transitions: -- next t.
NextAi == IF ti < Len(articles[ai][2]) THEN ai ELSE ai + 1
NextTi == IF ti < Len(articles[ai][2]) THEN ti + 1 ELSE 1

\* The variant that counts a transition once however often it occurs.
CountedOnce(t) == 1

\* transition_counts.get(t, 0) + 1
NewCount(t) == Get(transition_counts, t, 0) + 1

\* The variant that lets a fourth example in.
UnderCapInclusive(t) == Get(example_counts, t, 0) <= 3

\* example_counts.get(t, 0) < 3
UnderCap(t) == Get(example_counts, t, 0) < 3

\* before is not None and after is not None
Accepted(res) == res[1] # None /\ res[2] # None

\* fewshot_examples.append(ex)
AddExample(ex) == Append(fewshot_examples, ex)

\* s < t as Python compares str: by code point, a proper prefix first.
RECURSIVE StrLess(_, _)
StrLess(s, t) ==
    IF t = <<>> THEN FALSE
    ELSE IF s = <<>> THEN TRUE
    ELSE IF s[1] # t[1] THEN s[1] < t[1]
    ELSE StrLess(Tail(s), Tail(t))

\* sorted(set): the elements of set in increasing order.
RECURSIVE Sorted(_)
Sorted(set) ==
    IF set = {} THEN <<>>
    ELSE LET least == CHOOSE x \in set :
                         \A y \in set \ {x} : StrLess(x, y)
         IN  <<least>> \o Sorted(set \ {least})

\* transition_counts[t] = transition_counts.get(t, 0) + 1
\* all_transitions.append(t)
CountTransition ==
    /\ pc = "count"
    /\ ~LoopsDone
    /\ transition_counts' =
          Put(transition_counts, CurTransition, NewCount(CurTransition))
    /\ all_transitions' = Append(all_transitions, CurTransition)
    /\ ai' = NextAi
    /\ ti' = NextTi
    /\ UNCHANGED <<pc, articles, fewshot_examples, example_counts,
                   unique_transitions, duplicate_transitions,
                   fewshot_rejected, segVars, splitVars>>

\* The counting loops end; the building loops begin.
CountEnd ==
    /\ pc = "count"
    /\ LoopsDone
    /\ pc' = "build"
    /\ ai' = 1
    /\ ti' = 1
    /\ UNCHANGED <<articles, fewshot_examples, transition_counts,
                   example_counts, all_transitions, unique_transitions,
                   duplicate_transitions, fewshot_rejected, segVars,
                   splitVars>>

\* if example_counts.get(t, 0) < 3: before, after = split(narrative, t)
\*     if before is not None and after is not None:
\*         fewshot_examples.append({...}); example_counts[t] += 1
AcceptExample ==
    /\ pc = "build"
    /\ ~LoopsDone
    /\ UnderCap(CurTransition)
    /\ LET res == split_paragraph_on_transition(CurNarrative, CurTransition)
       IN  /\ Accepted(res)
           /\ fewshot_examples' =
                 AddExample([paragraph_a |-> res[1],
                             transition |-> CurTransition,
                             paragraph_b |-> res[2]])
    /\ example_counts' =
          Put(example_counts, CurTransition,
              Get(example_counts, CurTransition, 0) + 1)
    /\ ai' = NextAi
    /\ ti' = NextTi
    /\ UNCHANGED <<pc, articles, transition_counts, all_transitions,
                   unique_transitions, duplicate_transitions,
                   fewshot_rejected, segVars, splitVars>>

\* The split returned (None, None): nothing is appended or counted.
SkipNotFound ==
    /\ pc = "build"
    /\ ~LoopsDone
    /\ UnderCap(CurTransition)
    /\ ~Accepted(split_paragraph_on_transition(CurNarrative, CurTransition))
    /\ ai' = NextAi
    /\ ti' = NextTi
    /\ UNCHANGED <<pc, articles, fewshot_examples, transition_counts,
                   example_counts, all_transitions, unique_transitions,
                   duplicate_transitions, fewshot_rejected, segVars,
                   splitVars>>

\* example_counts.get(t, 0) < 3 fails: the transition is passed over.
SkipCapped ==
    /\ pc = "build"
    /\ ~LoopsDone
    /\ ~UnderCap(CurTransition)
    /\ ai' = NextAi
    /\ ti' = NextTi
    /\ UNCHANGED <<pc, articles, fewshot_examples, transition_counts,
                   example_counts, all_transitions, unique_transitions,
                   duplicate_transitions, fewshot_rejected, segVars,
                   splitVars>>

\* unique_transitions = sorted(set(all_transitions))
\* duplicate_transitions = {t: c ... if c > 1}
\* fewshot_rejected = {t: c ... if c > 3}
DeriveTables ==
    /\ pc = "build"
    /\ LoopsDone
    /\ unique_transitions' = Sorted(Range(all_transitions))
    /\ duplicate_transitions' = Above(transition_counts, 1)
    /\ fewshot_rejected' = Above(transition_counts, 3)
    /\ pc' = "done"
    /\ UNCHANGED <<articles, fewshot_examples, transition_counts,
                   example_counts, all_transitions, ai, ti, segVars,
                   splitVars>>

NextAgg ==
    \/ CountTransition
    \/ CountEnd
    \/ AcceptExample
    \/ SkipNotFound
    \/ SkipCapped
    \/ DeriveTables

SpecAgg == InitAgg /\ [][NextAgg]_vars

(***************************************************************************)
(* split_paragraph_on_transition on its own.                               *)
(***************************************************************************)
\* "a", "b", the space and the no-break space.
SplitAlphabet == {97, 98, 32, 160}

\* The strings over SplitAlphabet of 1..n characters that strip() leaves as
\* they are: what a narrative or a transition of an article can be.
StrippedTexts(n) ==
    {s \in UNION {[1..m -> SplitAlphabet] : m \in 1..n} : Strip(s) = s}

InitSplit ==
    /\ pc = "call"
    /\ narrative \in StrippedTexts(MaxLen)
    /\ transition \in StrippedTexts(MaxTransLen)
    /\ result = <<>>
    /\ articles = <<>>
    /\ IdleSeg
    /\ IdleAgg

\* before, after = split_paragraph_on_transition(narrative, t)
CallSplit ==
    /\ pc = "call"
    /\ result' = split_paragraph_on_transition(narrative, transition)
    /\ pc' = "returned"
    /\ UNCHANGED <<narrative, transition, articles, segVars, aggVars>>

NextSplit == CallSplit

SpecSplit == InitSplit /\ [][NextSplit]_vars

(***************************************************************************)
(* Properties of split_paragraph_on_transition and the aggregation passes. *)
(***************************************************************************)
AllWhitespace(s) == \A n \in 1..Len(s) : s[n] \in Whitespace

\* x is s without its leading and trailing whitespace.
IsTrimOf(x, s) ==
    /\ x # <<>> => (x[1] \notin Whitespace /\ x[Len(x)] \notin Whitespace)
    /\ \E lo \in 0..(Len(s) - Len(x)) :
          /\ AllWhitespace(Slice(s, 0, lo))
          /\ Slice(s, lo, lo + Len(x)) = x
          /\ AllWhitespace(Slice(s, lo + Len(x), Len(s)))

\* The indices at which sub occurs in s.
Occurrences(s, sub) == {at \in 0..Len(s) : OccursAt(s, sub, at)}

\* sub is a contiguous substring of s.
IsSubstring(sub, s) == Occurrences(s, sub) # {}

\* C4: the split returns (None, None) exactly when the transition does not
\* occur in the narrative; otherwise, with p the lowest index of an
\* occurrence, before is the trim of narrative[:p], after is the trim of
\* narrative[p+len(transition):], and every occurrence lying wholly after
\* the first one is still found inside after.
C4_SplitAtFirstOccurrence ==
    pc = "returned" =>
        LET occ == Occurrences(narrative, transition)
        IN  IF occ = {} THEN result = <<None, None>>
            ELSE LET p == Min(occ)
                     rest == p + Len(transition)
                 IN  /\ result[1] # None /\ result[2] # None
                     /\ IsTrimOf(result[1], Slice(narrative, 0, p))
                     /\ IsTrimOf(result[2],
                                 Slice(narrative, rest, Len(narrative)))
                     /\ Cardinality(Occurrences(result[2], transition)) =
                           Cardinality({q \in occ : q >= rest})

\* The transition occurs twice with blanks around the first occurrence, and
\* the split has returned.
C4_Witness ==
    /\ pc = "returned"
    /\ Cardinality(Occurrences(narrative, transition)) = 2
    /\ Occurrences(result[2], transition) # {}
    /\ Len(result[1]) + Len(transition) + Len(result[2]) < Len(narrative)

\* The examples whose transition is t.
ExamplesOf(t) ==
    {n \in 1..Len(fewshot_examples) : fewshot_examples[n].transition = t}

\* The places <<article, position>> of the transition lists, in the order
\* the loops visit them.
RECURSIVE PlacesFrom(_, _)
PlacesFrom(a, n) ==
    IF a > Len(articles) THEN <<>>
    ELSE IF n > Len(articles[a][2]) THEN PlacesFrom(a + 1, 1)
    ELSE <<<<a, n>>>> \o PlacesFrom(a, n + 1)

Places == PlacesFrom(1, 1)

TransitionAt(place) == articles[place[1]][2][place[2]]

\* The set of all places.
PlaceSet ==
    UNION {{<<a, n>> : n \in 1..Len(articles[a][2])} :
              a \in 1..Len(articles)}

\* For each transition text, the number of places holding it.
OccurrenceCounts ==
    LET places == PlaceSet
    IN  [t \in TransitionTexts |->
            Cardinality({pl \in places : TransitionAt(pl) = t})]

\* C1: every accepted example has a non-empty paragraph_a and a non-empty
\* paragraph_b.
C1_HalvesNonEmpty ==
    \A n \in 1..Len(fewshot_examples) :
        /\ fewshot_examples[n].paragraph_a # <<>>
        /\ fewshot_examples[n].paragraph_b # <<>>

\* C2: at every point of the building pass and at its end, no transition has
\* more than 3 examples.
C2_PerTransitionCap ==
    \A t \in TransitionTexts : Cardinality(ExamplesOf(t)) <= 3

\* A transition occurs 4 times, each time found, and has 3 examples.
C2_Witness ==
    /\ pc = "done"
    /\ \E t \in DOMAIN transition_counts :
          /\ transition_counts[t] = 4
          /\ Cardinality(ExamplesOf(t)) = 3
          /\ \A a \in 1..Len(articles) : IsSubstring(t, articles[a][1])

\* The example appended by this step, and the narrative it was taken from.
Appended == fewshot_examples' # fewshot_examples

NewExample == fewshot_examples'[Len(fewshot_examples')]

\* C3 as stated: for every accepted example, paragraph_a + transition +
\* paragraph_b, trimmed, is a contiguous substring of the narrative that
\* spans the first occurrence of the transition.
C3_ConcatenationIsSubstring ==
    [][Appended =>
         LET ex == NewExample
             whole == Strip(ex.paragraph_a \o ex.transition \o ex.paragraph_b)
             first == Find(CurNarrative, ex.transition)
         IN  \E at \in Occurrences(CurNarrative, whole) :
                /\ at <= first
                /\ first + Len(ex.transition) <= at + Len(whole)]_vars

\* C3 as amended: for every accepted example the narrative is paragraph_a,
\* a run of whitespace, the transition at its first occurrence, a run of
\* whitespace and paragraph_b, and the two paragraphs are trimmed; they are
\* substrings of the narrative, and the plain concatenation is one when
\* both runs are empty.
C3_ReconstructsNarrative ==
    [][Appended =>
         LET ex == NewExample
             nar == CurNarrative
             first == Find(nar, ex.transition)
             rest == first + Len(ex.transition)
             w1 == Slice(nar, Len(ex.paragraph_a), first)
             w2 == Slice(nar, rest, Len(nar) - Len(ex.paragraph_b))
         IN  /\ first >= 0
             /\ \A at \in Occurrences(nar, ex.transition) : first <= at
             /\ AllWhitespace(w1) /\ AllWhitespace(w2)
             /\ nar = ex.paragraph_a \o w1 \o ex.transition \o w2
                         \o ex.paragraph_b
             /\ Strip(ex.paragraph_a) = ex.paragraph_a
             /\ Strip(ex.paragraph_b) = ex.paragraph_b
             /\ IsSubstring(ex.paragraph_a, nar)
             /\ IsSubstring(ex.paragraph_b, nar)
             /\ (w1 = <<>> /\ w2 = <<>>) =>
                   IsSubstring(ex.paragraph_a \o ex.transition
                                  \o ex.paragraph_b, nar)]_vars

\* An example with two non-empty paragraphs was taken from a narrative in
\* which blanks surround the transition.
C3_Witness ==
    /\ pc = "build"
    /\ \E n \in 1..Len(fewshot_examples), a \in 1..Len(articles) :
          LET ex == fewshot_examples[n]
          IN  /\ a < ai
              /\ ex.paragraph_a # <<>> /\ ex.paragraph_b # <<>>
              /\ articles[a][1] = ex.paragraph_a \o <<160>> \o ex.transition
                                    \o <<32>> \o ex.paragraph_b

\* C5: once counted, transition_counts maps exactly the transitions that
\* occur to the number of their occurrences in all the lists; at the end
\* duplicate_transitions holds exactly those with count > 1 and
\* fewshot_rejected exactly those with count > 3, with the full counts.
C5_FrequencyTables ==
    pc \in {"build", "done"} =>
        LET count == OccurrenceCounts
        IN  /\ DOMAIN transition_counts =
                  {t \in TransitionTexts : count[t] > 0}
            /\ \A t \in DOMAIN transition_counts :
                  transition_counts[t] = count[t]
            /\ pc = "done" =>
                  /\ DOMAIN duplicate_transitions =
                        {t \in TransitionTexts : count[t] > 1}
                  /\ DOMAIN fewshot_rejected =
                        {t \in TransitionTexts : count[t] > 3}
                  /\ \A t \in DOMAIN duplicate_transitions :
                        duplicate_transitions[t] = count[t]
                  /\ \A t \in DOMAIN fewshot_rejected :
                        fewshot_rejected[t] = count[t]

\* A transition that occurs 4 times in two articles, is found in neither
\* narrative and has no example, is in both tables with count 4.
C5_Witness ==
    /\ pc = "done"
    /\ Len(articles) = 2
    /\ \E t \in DOMAIN fewshot_rejected :
          /\ fewshot_rejected[t] = 4
          /\ duplicate_transitions[t] = 4
          /\ ExamplesOf(t) = {}

\* The split of the transition at a place is accepted: the transition occurs
\* in the narrative, and the text before its first occurrence and the text
\* after it are both non-empty once trimmed.
AcceptedAt(place) ==
    LET nar == articles[place[1]][1]
        tr == TransitionAt(place)
    IN  /\ IsSubstring(tr, nar)
        /\ LET at == Min(Occurrences(nar, tr))
           IN  /\ ~AllWhitespace(Slice(nar, 0, at))
               /\ ~AllWhitespace(Slice(nar, at + Len(tr), Len(nar)))

\* The number of places before the n-th that hold the same transition and
\* whose split is accepted.
EarlierAccepted(places, n) ==
    Cardinality({m \in 1..(n - 1) :
                    /\ TransitionAt(places[m]) = TransitionAt(places[n])
                    /\ AcceptedAt(places[m])})

\* The places kept, from the n-th on: the split is accepted and fewer than 3
\* earlier places of the same transition were accepted.
RECURSIVE KeptFrom(_, _)
KeptFrom(places, n) ==
    IF n > Len(places) THEN <<>>
    ELSE IF AcceptedAt(places[n]) /\ EarlierAccepted(places, n) < 3
         THEN <<places[n]>> \o KeptFrom(places, n + 1)
         ELSE KeptFrom(places, n + 1)

\* C9: the examples are, in article order and then transition order, those
\* of the places whose split is accepted (found, with both halves non-empty),
\* the first 3 per transition; a place whose split is not accepted adds
\* nothing and does not count towards the 3.
C9_KeptOccurrences ==
    pc = "done" =>
        LET kept == KeptFrom(Places, 1)
        IN  /\ Len(fewshot_examples) = Len(kept)
            /\ \A n \in 1..Len(kept) :
                  LET nar == articles[kept[n][1]][1]
                      tr == TransitionAt(kept[n])
                      at == Min(Occurrences(nar, tr))
                  IN  /\ fewshot_examples[n].transition = tr
                      /\ IsTrimOf(fewshot_examples[n].paragraph_a,
                                  Slice(nar, 0, at))
                      /\ IsTrimOf(fewshot_examples[n].paragraph_b,
                                  Slice(nar, at + Len(tr), Len(nar)))

====
